---------------------------- MODULE Spec2Model ----------------------------
(***************************************************************************)
(* The dispatch state machine of the message queue: the seven tables, the  *)
(* eight query operations that move a message between them, and the        *)
(* transactions (READ COMMITTED, row locks, FOR UPDATE SKIP LOCKED) the    *)
(* get_next_* queries run in.                                              *)
(*                                                                         *)
(* A row that an open transaction has inserted carries by = <that          *)
(* transaction>; a committed row that an open transaction has locked       *)
(* carries lock = <that transaction>.  A locked row of messages_unattempted*)
(* or leases is one the locker has deleted or superseded: it is still the  *)
(* committed version every other executor sees until the locker commits.   *)
(* Executor 0 is a pool connection: each statement on it commits at once.  *)
(***************************************************************************)
EXTENDS Integers, Sequences, FiniteSets, Bags, TLC

\* ---- bounds of the model ----
MaxMsgs == 2
MaxSeqMsgs == 1
MaxHosts == 2
MaxTxHosts == 1
MaxTx == 2
MaxTime == 1
MaxHold == 1
MaxDelay == 1
MaxAttempted == 1
MaxLeaseRows == 2
MaxFailedRows == 2
MaxErrors == 2
MaxRenewTime == 2
MaxRenewHold == 3
MaxPollTime == 3
MaxFailedAttempts == 4
MaxBase == 2
MaxBaseDelay == 1
MaxUpstream == 1
MaxTimers == 2
MaxRawLen == 4
\* Postgres' NAMEDATALEN of 64, scaled so that raw strings of both sides are in reach
DEFAULT_NAMEDATALEN == 4
\* the width of u32, scaled from 32 bits so that the wrap of base.pow is within reach
U32Bits == 3

Msgs == 1..MaxMsgs
SeqMsgs == 1..MaxSeqMsgs
Hosts == 1..MaxHosts
TxHosts == 1..MaxTxHosts
Txs == 1..MaxTx
Execs == 0..MaxTx
Pool == 0
NoMsg == 0
NoHost == 0

VARIABLES
    clock,                 \* Utc::now()
    messages_unattempted,  \* set of [id, published_at, lock]
    messages_attempted,    \* set of [id, published_at, by, lock]
    leases,                \* bag of [message_id, acquired_at, acquired_by, expires_at, by, lock]
    attempts_failed,       \* sequence (insertion order) of [message_id, failed_at, attempted, retry_earliest_at, lock]
    attempts_succeeded,    \* set of message ids
    attempts_dead,         \* set of message ids
    errors,                \* number of errors rows per message id
    txOpen,                \* which transactions are open
    held,                  \* per open transaction: the messages its get_next_* calls returned
    handed,                \* per message: the host and expiry of the last get_next_* hand-out not yet reported by that host
    given,                 \* per message: the hosts a get_next_* call gave it to and that have not reported on it since
    ret,                   \* the result of the last operation
    stream,                \* the PollControlStream of the listener
    queries                \* the Queries facade and each transaction's search_path

vars == <<clock, messages_unattempted, messages_attempted, leases, attempts_failed,
          attempts_succeeded, attempts_dead, errors, txOpen, held, handed, given, ret,
          stream, queries>>

tables == <<messages_unattempted, messages_attempted, leases, attempts_failed,
            attempts_succeeded, attempts_dead, errors>>

\* ---- helpers over rows ----

\* val: "some" / "none" / "ok" / "err"; num: the attempted counter or the expiry returned
Result(op, h, m, val, num) == [op |-> op, msg |-> m, val |-> val, num |-> num]

\* the committed rows plus the executor's own uncommitted ones
VisibleTo(t, r) == IF r.by = Pool THEN (t = Pool \/ r.lock # t) ELSE r.by = t

\* a row lock can be taken at once: nobody else holds it
Lockable(t, r) == r.lock = Pool \/ r.lock = t

VisibleLeases(t) == {l \in DOMAIN leases : VisibleTo(t, l)}

\* a SELECT that finds no messages_attempted row
VisibleAttemptedNone(t) == {}

\* the messages_attempted rows a statement on t reads: the committed ones and t's
\* own (a row is never deleted, and a row t has locked FOR UPDATE is still read by t)
VisibleAttempted(t) == {a \in messages_attempted : a.by = Pool \/ a.by = t}

LeaseRow(m, now, h, expires_at, t) ==
    [message_id |-> m, acquired_at |-> now, acquired_by |-> h,
     expires_at |-> expires_at, by |-> t, lock |-> Pool]

BagCount(B, x) == IF x \in DOMAIN B THEN B[x] ELSE 0

BagKeep(B, S) == [x \in (DOMAIN B) \cap S |-> B[x]]

SeqFilterOut(s, m) == SelectSeq(s, LAMBDA r : r.message_id # m)

SeqToSet(s) == {s[i] : i \in DOMAIN s}

Max(S) == CHOOSE x \in S : \A y \in S : y <= x

\* ---- backoff/exponential.rs and the construction of listener/poll_control.rs ----

RECURSIVE Pow(_, _)
\* base^e over the integers
Pow(b, e) == IF e = 0 THEN 1 ELSE b * Pow(b, e - 1)

\* the number of values of a u32
U32Range == Pow(2, U32Bits)

\* u32::pow: with overflow checks (debug build) an overflowing power panics,
\* without them (release build) it wraps
pow(base, e, overflow_checks) ==
    IF Pow(base, e) >= U32Range /\ overflow_checks
    THEN [panic |-> TRUE, value |-> 0]
    ELSE [panic |-> FALSE, value |-> Pow(base, e) % U32Range]

\* no instant
NoTime == -1

ExponentialBackoff(base, base_delay) == [base |-> base, base_delay |-> base_delay]

\* ExponentialBackoff::try_at
try_at(backoff, attempted, attempted_at, overflow_checks) ==
    IF attempted <= 0
    THEN [panic |-> FALSE, at |-> attempted_at]
    ELSE LET p == pow(backoff.base, attempted - 1, overflow_checks)
         IN  [panic |-> p.panic, at |-> attempted_at + backoff.base_delay * p.value]

\* PollControlStream::new; upstream, ended are the notification stream that
\* with_pg_stream attaches; timers are the due times of the tasks wake_in has
\* spawned and not yet run to their end, woken says that one of them has called the
\* consumer's waker since the last poll; alive, overflow_checks, forced,
\* polled, wait_until, last_emit are the task's life, the build and the history of
\* the calls so far
PollControlStream(backoff, now, overflow_checks) ==
    [pg_stream |-> FALSE, failed_attempts |-> 0, reference_time |-> now,
     backoff |-> backoff, poll |-> TRUE,
     upstream |-> <<>>, ended |-> FALSE,
     alive |-> TRUE, overflow_checks |-> overflow_checks,
     timers |-> EmptyBag, woken |-> FALSE,
     forced |-> FALSE, polled |-> FALSE,
     wait_until |-> NoTime, last_emit |-> NoTime]

\* the search_path of a session that never set it
DefaultSearchPath == <<"$user", "public">>

\* no Queries value built yet, every transaction on the default search_path
NoQueries ==
    [made |-> FALSE, schema |-> <<>>, search_path |-> [t \in 1..MaxTx |-> DefaultSearchPath]]

InitQueue ==
    /\ queries = NoQueries
    /\ clock = 0
    /\ messages_unattempted = {}
    /\ messages_attempted = {}
    /\ leases = EmptyBag
    /\ attempts_failed = <<>>
    /\ attempts_succeeded = {}
    /\ attempts_dead = {}
    /\ errors = [m \in Msgs |-> 0]
    /\ txOpen = [t \in Txs |-> FALSE]
    /\ held = [t \in Txs |-> {}]
    /\ handed = [m \in Msgs |-> [host |-> NoHost, exp |-> 0]]
    /\ given = [m \in Msgs |-> {}]
    /\ ret = Result("init", NoHost, NoMsg, "ok", 0)

Init ==
    /\ InitQueue
    /\ stream = PollControlStream(ExponentialBackoff(MaxBase, MaxBaseDelay), 0, TRUE)

Bases == 1..MaxBase

BaseDelays == 1..MaxBaseDelay

\* the stream of a listener built with any backoff, by a debug or a release build
InitPoll ==
    /\ InitQueue
    /\ \E b \in Bases, d \in BaseDelays, c \in BOOLEAN :
          stream = PollControlStream(ExponentialBackoff(b, d), 0, c)

InUnattempted(m) == \E u \in messages_unattempted : u.id = m

InAttempted(m) == \E a \in messages_attempted : a.id = m

\* ---- the schema's constraints ----

\* PRIMARY KEY of messages_unattempted: the id is not there yet
PkMessagesUnattempted(id) == \A u \in messages_unattempted : u.id # id

\* PRIMARY KEY of messages_attempted
PkMessagesAttempted(id) == \A a \in messages_attempted : a.id # id

\* a schema without that foreign key: any message id is accepted
FkNotEnforced(m) == m \in Msgs

\* FOREIGN KEY of attempts_succeeded, attempts_failed, attempts_dead and errors
FkMessagesAttempted(m) == \E a \in messages_attempted : a.id = m /\ a.by = Pool

\* PRIMARY KEY of attempts_succeeded
PkAttemptsSucceeded(m) == m \notin attempts_succeeded

\* PRIMARY KEY of attempts_dead
PkAttemptsDead(m) == m \notin attempts_dead

\* ---- transactions ----

RECURSIVE SumCounts(_, _)
SumCounts(B, S) ==
    IF S = {} THEN 0
    ELSE LET x == CHOOSE y \in S : TRUE IN B[x] + SumCounts(B, S \ {x})

\* the bag of F(x) for the rows x of B
BagMap(B, F(_)) ==
    [y \in {F(x) : x \in DOMAIN B} |-> SumCounts(B, {x \in DOMAIN B : F(x) = y})]

Unlock(r) == [r EXCEPT !.lock = Pool]

UnlockOf(t, r) == IF r.lock = t THEN Unlock(r) ELSE r

Committed(r) == [r EXCEPT !.by = Pool, !.lock = Pool]

CommittedOf(t, r) == IF r.by = t \/ r.lock = t THEN Committed(r) ELSE r

\* ROLLBACK: the transaction's rows vanish and its locks are released
RollbackTables(t) ==
    /\ messages_unattempted' = {UnlockOf(t, u) : u \in messages_unattempted}
    /\ messages_attempted' = {UnlockOf(t, a) : a \in {x \in messages_attempted : x.by # t}}
    /\ leases' = BagMap(BagKeep(leases, {l \in DOMAIN leases : l.by # t}),
                        LAMBDA l : UnlockOf(t, l))
    /\ attempts_failed' = [i \in DOMAIN attempts_failed |-> UnlockOf(t, attempts_failed[i])]
    /\ UNCHANGED <<attempts_succeeded, attempts_dead, errors>>

\* COMMIT: the transaction's rows become everybody's, the rows it deleted or
\* superseded vanish, and its locks are released
CommitTables(t) ==
    /\ messages_unattempted' = {u \in messages_unattempted : u.lock # t}
    /\ messages_attempted' = {CommittedOf(t, a) : a \in messages_attempted}
    /\ leases' = BagMap(BagKeep(leases, {l \in DOMAIN leases : l.lock # t}),
                        LAMBDA l : CommittedOf(t, l))
    /\ attempts_failed' = [i \in DOMAIN attempts_failed |-> UnlockOf(t, attempts_failed[i])]
    /\ UNCHANGED <<attempts_succeeded, attempts_dead, errors>>

begin(t) ==
    /\ UNCHANGED stream
    /\ queries' = [queries EXCEPT !.search_path[t] = DefaultSearchPath]
    /\ ~txOpen[t]
    /\ txOpen' = [txOpen EXCEPT ![t] = TRUE]
    /\ ret' = Result("begin", NoHost, NoMsg, "ok", t)
    /\ UNCHANGED <<clock, tables, held, handed, given>>

commit(t) ==
    /\ UNCHANGED <<stream, queries>>
    /\ txOpen[t]
    /\ CommitTables(t)
    /\ txOpen' = [txOpen EXCEPT ![t] = FALSE]
    /\ held' = [held EXCEPT ![t] = {}]
    /\ ret' = Result("commit", NoHost, NoMsg, "ok", t)
    /\ UNCHANGED <<clock, handed, given>>

rollback(t) ==
    /\ UNCHANGED <<stream, queries>>
    /\ txOpen[t]
    /\ RollbackTables(t)
    /\ txOpen' = [txOpen EXCEPT ![t] = FALSE]
    /\ held' = [held EXCEPT ![t] = {}]
    /\ ret' = Result("rollback", NoHost, NoMsg, "ok", t)
    /\ UNCHANGED <<clock, handed, given>>

\* a statement on executor t failed: an open transaction is rolled back
Failed(t) ==
    IF t = Pool
    THEN UNCHANGED <<tables, txOpen, held>>
    ELSE /\ RollbackTables(t)
         /\ txOpen' = [txOpen EXCEPT ![t] = FALSE]
         /\ held' = [held EXCEPT ![t] = {}]

CanRun(t) == IF t = Pool THEN TRUE ELSE txOpen[t]

\* the caller now has the message in its hands
Hold(t, m) == IF t = Pool THEN held' = held ELSE held' = [held EXCEPT ![t] = @ \cup {m}]

HandTo(h, m, expires_at) ==
    /\ handed' = [handed EXCEPT ![m] = [host |-> h, exp |-> expires_at]]
    /\ given' = [given EXCEPT ![m] = @ \cup {h}]

\* host h reported on m: if it was the holder, the hand-out is over
Reported(h, m) ==
    /\ handed' = IF handed[m].host = h
                 THEN [handed EXCEPT ![m] = [host |-> NoHost, exp |-> 0]]
                 ELSE handed
    /\ given' = [given EXCEPT ![m] = @ \ {h}]

\* ---- publish_message ----

publish_message(m) ==
    /\ UNCHANGED <<stream, queries>>
    \* the INSERT waits for a transaction that holds the row of this id
    /\ \A u \in messages_unattempted : u.id = m => u.lock = Pool
    /\ IF PkMessagesUnattempted(m)
       THEN /\ messages_unattempted' = messages_unattempted \cup
                    {[id |-> m, published_at |-> clock, lock |-> Pool]}
            /\ ret' = Result("publish_message", NoHost, m, "some", 0)
       ELSE /\ UNCHANGED messages_unattempted
            /\ ret' = Result("publish_message", NoHost, m, "err", 0)
    /\ UNCHANGED <<clock, messages_attempted, leases, attempts_failed, attempts_succeeded,
                   attempts_dead, errors, txOpen, held, handed, given>>

\* ---- get_next_unattempted ----

\* ORDER BY published_at ASC, id ASC
UnattemptedBefore(u, v) ==
    u.published_at < v.published_at \/ (u.published_at = v.published_at /\ u.id <= v.id)

\* the candidates of a SELECT that reads rows other transactions hold locked
UnattemptedCandidatesNoSkip(t) == messages_unattempted

\* FOR UPDATE SKIP LOCKED: the rows nobody has locked
UnattemptedCandidates(t) == {u \in messages_unattempted : u.lock = Pool}

NextUnattempted(t) ==
    CHOOSE u \in UnattemptedCandidates(t) : \A v \in UnattemptedCandidates(t) : UnattemptedBefore(u, v)

get_next_unattempted(t, h, hold_for) ==
    LET now == clock
        expires_at == now + hold_for
    IN  /\ UNCHANGED <<stream, queries>>
        /\ CanRun(t)
        /\ IF UnattemptedCandidates(t) = {}
           THEN /\ ret' = Result("get_next_unattempted", h, NoMsg, "none", 0)
                /\ UNCHANGED <<clock, tables, txOpen, held, handed, given>>
           ELSE LET u == NextUnattempted(t) IN
                IF ~PkMessagesAttempted(u.id)
                THEN /\ Failed(t)
                     /\ ret' = Result("get_next_unattempted", h, u.id, "err", 0)
                     /\ UNCHANGED <<clock, handed, given>>
                ELSE /\ BagCardinality(leases) < MaxLeaseRows
                     /\ messages_unattempted' =
                            IF t = Pool THEN messages_unattempted \ {u}
                            ELSE (messages_unattempted \ {u}) \cup {[u EXCEPT !.lock = t]}
                     /\ leases' = leases (+) SetToBag({LeaseRow(u.id, now, h, expires_at, t)})
                     /\ messages_attempted' = messages_attempted \cup
                            {[id |-> u.id, published_at |-> u.published_at, by |-> t, lock |-> Pool]}
                     /\ Hold(t, u.id)
                     /\ HandTo(h, u.id, expires_at)
                     /\ ret' = Result("get_next_unattempted", h, u.id, "some", 0)
                     /\ UNCHANGED <<clock, attempts_failed, attempts_succeeded, attempts_dead,
                                    errors, txOpen>>

\* ---- get_next_retryable ----

FailedRowsOf(m) == {i \in DOMAIN attempts_failed : attempts_failed[i].message_id = m}

\* l.message_id = fa.message_id AND l.expires_at > $1
HasActiveLease(t, m, now) ==
    \E l \in VisibleLeases(t) : l.message_id = m /\ l.expires_at > now

\* a selection that takes any failed row of the message, the latest or not
IsAnyFailed(i) == i \in DOMAIN attempts_failed

\* fa.failed_at = (SELECT MAX(fa2.failed_at) ... WHERE fa2.message_id = fa.message_id)
IsLatestFailed(i) ==
    attempts_failed[i].failed_at =
        Max({attempts_failed[j].failed_at : j \in FailedRowsOf(attempts_failed[i].message_id)})

\* the WHERE clause of next_retryable
RetryableCandidates(t, now) ==
    {i \in DOMAIN attempts_failed :
        /\ attempts_failed[i].retry_earliest_at <= now
        /\ ~HasActiveLease(t, attempts_failed[i].message_id, now)
        /\ IsLatestFailed(i)}

\* ORDER BY fa.failed_at ASC, fa.message_id ASC
FailedBefore(i, j) ==
    LET fa == attempts_failed[i]
        fb == attempts_failed[j]
    IN  fa.failed_at < fb.failed_at \/ (fa.failed_at = fb.failed_at /\ fa.message_id <= fb.message_id)

\* LIMIT 1 FOR UPDATE SKIP LOCKED: the first rows of the order that can be locked
\* (rows that tie in the order are returned in any order)
NextRetryable(t, now) ==
    LET free == {i \in RetryableCandidates(t, now) : Lockable(t, attempts_failed[i])}
    IN  {i \in free : \A j \in free : FailedBefore(i, j)}

get_next_retryable(t, h, hold_for) ==
    LET now == clock
        expires_at == now + hold_for
    IN  /\ UNCHANGED <<stream, queries>>
        /\ CanRun(t)
        /\ IF NextRetryable(t, now) = {}
           THEN /\ ret' = Result("get_next_retryable", h, NoMsg, "none", 0)
                /\ UNCHANGED <<clock, tables, txOpen, held, handed, given>>
           ELSE \E i \in NextRetryable(t, now) :
                LET fa == attempts_failed[i]
                    m == fa.message_id
                IN  /\ BagCardinality(leases) < MaxLeaseRows
                    /\ attempts_failed' =
                           IF t = Pool THEN attempts_failed
                           ELSE [attempts_failed EXCEPT ![i].lock = t]
                    /\ leases' = leases (+) SetToBag({LeaseRow(m, now, h, expires_at, t)})
                    \* FROM messages_attempted WHERE id = (SELECT message_id FROM leased)
                    /\ IF \E a \in VisibleAttempted(t) : a.id = m
                       THEN /\ Hold(t, m)
                            /\ HandTo(h, m, expires_at)
                            /\ ret' = Result("get_next_retryable", h, m, "some", fa.attempted)
                       ELSE /\ UNCHANGED <<held, handed, given>>
                            /\ ret' = Result("get_next_retryable", h, NoMsg, "none", 0)
                    /\ UNCHANGED <<clock, messages_unattempted, messages_attempted,
                                   attempts_succeeded, attempts_dead, errors, txOpen>>

\* ---- get_next_missing ----

\* the WHERE clause of candidate: leases JOIN messages_attempted
MissingCandidates(t, now) ==
    {c \in VisibleLeases(t) \X VisibleAttempted(t) :
        /\ c[2].id = c[1].message_id
        /\ c[1].expires_at < now
        /\ c[2].id \notin attempts_succeeded
        /\ c[2].id \notin attempts_dead}

\* ORDER BY ma.published_at LIMIT 1 FOR UPDATE SKIP LOCKED (both joined rows are locked)
NextMissing(t, now) ==
    LET free == {c \in MissingCandidates(t, now) : Lockable(t, c[1]) /\ Lockable(t, c[2])}
    IN  {c \in free : \A d \in free : c[2].published_at <= d[2].published_at}

\* UPDATE leases le SET ... WHERE le.message_id = c.id
RewriteLeases(t, m, row) ==
    LET mine == {l \in VisibleLeases(t) : l.message_id = m}
        Old(l) == IF l \in mine /\ l.by = Pool /\ t # Pool THEN [l EXCEPT !.lock = t] ELSE l
        rest == BagMap(BagKeep(leases, {l \in DOMAIN leases : ~(l \in mine /\ (l.by = t))}),
                       Old)
    IN  rest (+) [x \in {row} |-> SumCounts(leases, mine)]

get_next_missing(t, h, hold_for) ==
    LET now == clock
        expires_at == now + hold_for
    IN  /\ UNCHANGED <<stream, queries>>
        /\ CanRun(t)
        /\ IF NextMissing(t, now) = {}
           THEN /\ ret' = Result("get_next_missing", h, NoMsg, "none", 0)
                /\ UNCHANGED <<clock, tables, txOpen, held, handed, given>>
           ELSE \E c \in NextMissing(t, now) :
                LET m == c[2].id IN
                    \* the UPDATE waits for a transaction that holds one of the rows
                    /\ \A l \in VisibleLeases(t) : l.message_id = m => Lockable(t, l)
                    /\ leases' = RewriteLeases(t, m, LeaseRow(m, now, h, expires_at, t))
                    /\ messages_attempted' =
                           IF t = Pool \/ c[2].by = t THEN messages_attempted
                           ELSE (messages_attempted \ {c[2]}) \cup {[c[2] EXCEPT !.lock = t]}
                    /\ Hold(t, m)
                    /\ HandTo(h, m, expires_at)
                    /\ ret' = Result("get_next_missing", h, m, "some", 0)
                    /\ UNCHANGED <<clock, messages_unattempted, attempts_failed,
                                   attempts_succeeded, attempts_dead, errors, txOpen>>

\* ---- report_success, report_retryable, report_dead ----

\* a report that leaves the lease rows of the message in place
DeleteLeasesKeepsRows(m) == leases

\* DELETE FROM leases WHERE message_id = $1
DeleteLeases(m) == BagKeep(leases, {l \in DOMAIN leases : ~(l.message_id = m /\ l.by = Pool)})

\* a report that leaves the attempts_failed rows of the message in place
DeleteFailedKeepsRows(m) == attempts_failed

\* DELETE FROM attempts_failed WHERE message_id = $1
DeleteFailed(m) == SeqFilterOut(attempts_failed, m)

\* a report that writes no errors row
InsertErrorLost(m) == errors

\* INSERT INTO errors (id, message_id, reported_at, error): one more row of m
InsertError(m) == [errors EXCEPT ![m] = @ + 1]

\* the statement waits while a transaction holds a row it deletes or references
LeasesFree(m) == \A l \in DOMAIN leases : l.message_id = m /\ l.by = Pool => l.lock = Pool

FailedFree(m) == \A i \in FailedRowsOf(m) : attempts_failed[i].lock = Pool

AttemptedFree(m) == \A a \in messages_attempted : a.id = m => a.lock = Pool

report_success(h, m) ==
    /\ UNCHANGED <<stream, queries>>
    /\ LeasesFree(m) /\ FailedFree(m) /\ AttemptedFree(m)
    /\ IF FkMessagesAttempted(m) /\ PkAttemptsSucceeded(m)
       THEN /\ leases' = DeleteLeases(m)
            /\ attempts_failed' = DeleteFailed(m)
            /\ attempts_succeeded' = attempts_succeeded \cup {m}
            /\ Reported(h, m)
            /\ ret' = Result("report_success", h, m, "ok", 0)
       ELSE /\ UNCHANGED <<leases, attempts_failed, attempts_succeeded, handed, given>>
            /\ ret' = Result("report_success", h, m, "err", 0)
    /\ UNCHANGED <<clock, messages_unattempted, messages_attempted, attempts_dead, errors,
                   txOpen, held>>

report_retryable(h, m, attempted, retry_earliest_at) ==
    LET attempted_at == clock IN
    /\ UNCHANGED <<stream, queries>>
    /\ LeasesFree(m) /\ AttemptedFree(m)
    /\ IF FkMessagesAttempted(m)
       THEN /\ Len(attempts_failed) < MaxFailedRows
            /\ errors[m] < MaxErrors
            /\ leases' = DeleteLeases(m)
            /\ attempts_failed' = Append(attempts_failed,
                   [message_id |-> m, failed_at |-> attempted_at, attempted |-> attempted,
                    retry_earliest_at |-> retry_earliest_at, lock |-> Pool])
            /\ errors' = InsertError(m)
            /\ Reported(h, m)
            /\ ret' = Result("report_retryable", h, m, "ok", 0)
       ELSE /\ UNCHANGED <<leases, attempts_failed, errors, handed, given>>
            /\ ret' = Result("report_retryable", h, m, "err", 0)
    /\ UNCHANGED <<clock, messages_unattempted, messages_attempted, attempts_succeeded,
                   attempts_dead, txOpen, held>>

report_dead(h, m) ==
    /\ UNCHANGED <<stream, queries>>
    /\ LeasesFree(m) /\ FailedFree(m) /\ AttemptedFree(m)
    /\ IF FkMessagesAttempted(m) /\ PkAttemptsDead(m)
       THEN /\ errors[m] < MaxErrors
            /\ leases' = DeleteLeases(m)
            /\ attempts_failed' = DeleteFailed(m)
            /\ attempts_dead' = attempts_dead \cup {m}
            /\ errors' = InsertError(m)
            /\ Reported(h, m)
            /\ ret' = Result("report_dead", h, m, "ok", 0)
       ELSE /\ UNCHANGED <<leases, attempts_failed, attempts_dead, errors, handed, given>>
            /\ ret' = Result("report_dead", h, m, "err", 0)
    /\ UNCHANGED <<clock, messages_unattempted, messages_attempted, attempts_succeeded,
                   txOpen, held>>

\* ---- request_lease ----

\* WHERE not exists (SELECT * FROM leases WHERE acquired_by != $3 AND expires_at > $2)
LeaseGranted(m, now, h) ==
    ~\E l \in VisibleLeases(Pool) : l.acquired_by # h /\ l.expires_at > now

request_lease(h, m, hold_for) ==
    LET now == clock
        expires_at == now + hold_for
    IN  /\ UNCHANGED <<stream, queries>>
        /\ IF LeaseGranted(m, now, h)
           THEN /\ BagCardinality(leases) < MaxLeaseRows
                /\ leases' = leases (+) SetToBag({LeaseRow(m, now, h, expires_at, Pool)})
                \* a renewal by the holder extends its hand-out
                /\ handed' = IF handed[m].host = h /\ handed[m].exp < expires_at
                             THEN [handed EXCEPT ![m].exp = expires_at] ELSE handed
                /\ UNCHANGED given
                /\ ret' = Result("request_lease", h, m, "some", expires_at)
           ELSE /\ UNCHANGED <<leases, handed, given>>
                /\ ret' = Result("request_lease", h, m, "none", 0)
        /\ UNCHANGED <<clock, messages_unattempted, messages_attempted, attempts_failed,
                       attempts_succeeded, attempts_dead, errors, txOpen, held>>

\* time passes
Tick ==
    /\ UNCHANGED <<stream, queries>>
    /\ clock < MaxTime
    /\ clock' = clock + 1
    /\ ret' = Result("tick", NoHost, NoMsg, "ok", 0)
    /\ UNCHANGED <<tables, txOpen, held, handed, given>>

\* ---- the state predicates of testing_tools ----

\* the eight booleans get_raw_state reads for message m at time now (on a pool connection)
get_raw_state(m, now) ==
    [is_pending |-> \E u \in messages_unattempted : u.id = m,
     is_attempted |-> \E a \in VisibleAttempted(Pool) : a.id = m,
     has_any_lease |-> \E l \in VisibleLeases(Pool) : l.message_id = m,
     has_active_lease |-> \E l \in VisibleLeases(Pool) : l.message_id = m /\ l.expires_at > now,
     has_failed_attempts |-> FailedRowsOf(m) # {},
     has_errors |-> errors[m] > 0,
     is_succeeded |-> m \in attempts_succeeded,
     is_dead |-> m \in attempts_dead]

\* RawState::get_state: the match of the eight booleans, "Undefined" being its panic branch
get_state(r) ==
    LET v == <<r.is_pending, r.is_attempted, r.has_any_lease, r.has_active_lease,
               r.has_failed_attempts, r.has_errors, r.is_succeeded, r.is_dead>>
    IN  IF v = <<TRUE, FALSE, FALSE, FALSE, FALSE, FALSE, FALSE, FALSE>> THEN "Pending"
        ELSE IF v[1] = FALSE /\ v[2] = TRUE /\ v[3] = TRUE /\ v[4] = TRUE
                /\ v[7] = FALSE /\ v[8] = FALSE THEN "InProgress"
        ELSE IF v[1] = FALSE /\ v[2] = TRUE /\ v[3] = TRUE /\ v[4] = FALSE
                /\ v[7] = FALSE /\ v[8] = FALSE THEN "Missing"
        ELSE IF v = <<FALSE, TRUE, FALSE, FALSE, TRUE, TRUE, FALSE, FALSE>> THEN "Failed"
        ELSE IF v[1] = FALSE /\ v[2] = TRUE /\ v[3] = FALSE /\ v[4] = FALSE /\ v[5] = FALSE
                /\ v[7] = TRUE /\ v[8] = FALSE THEN "Succeeded"
        ELSE IF v = <<FALSE, TRUE, FALSE, FALSE, FALSE, TRUE, FALSE, TRUE>> THEN "Dead"
        ELSE "Undefined"

\* ---- listener/poll_control.rs ----

\* a call on the stream: its new state and what it returned
StreamStep(s, op, val, num) ==
    /\ stream' = s
    /\ ret' = Result(op, NoHost, NoMsg, val, num)
    /\ UNCHANGED <<clock, tables, txOpen, held, handed, given, queries>>

with_pg_stream ==
    /\ stream.alive
    /\ StreamStep([stream EXCEPT !.pg_stream = TRUE, !.upstream = <<>>, !.ended = FALSE,
                                  !.wait_until = NoTime],
                  "with_pg_stream", "ok", 0)

increment_failed_attempts ==
    /\ stream.alive
    /\ stream.failed_attempts < MaxFailedAttempts
    /\ StreamStep([stream EXCEPT !.failed_attempts = @ + 1, !.wait_until = NoTime],
                  "increment_failed_attempts", "ok", 0)

reset_failed_attempts ==
    /\ stream.alive
    /\ StreamStep([stream EXCEPT !.failed_attempts = 0, !.wait_until = NoTime],
                  "reset_failed_attempts", "ok", 0)

set_poll ==
    /\ stream.alive
    /\ StreamStep([stream EXCEPT !.poll = TRUE, !.forced = TRUE, !.wait_until = NoTime],
                  "set_poll", "ok", 0)

\* wake_in that arms nothing
wake_in_lost(s, now, duration) == s

\* wake_in: tokio::spawn of a task that sleeps for the duration and then calls the
\* waker; the task is detached, nothing keeps its handle
wake_in(s, now, duration) == [s EXCEPT !.timers = @ (+) SetToBag({now + duration})]

\* handle_backoff_timing that leaves reference_time as it is when it emits
handle_backoff_timing_keeping_reference(s, now, attempts) ==
    LET t == try_at(s.backoff, attempts, s.reference_time, s.overflow_checks)
    IN  IF t.panic
        THEN [s |-> [s EXCEPT !.alive = FALSE], val |-> "panic", num |-> 0]
        ELSE IF now >= t.at
             THEN [s |-> s, val |-> "emit", num |-> 0]
             ELSE [s |-> [wake_in(s, now, t.at - now) EXCEPT !.wait_until = t.at],
                   val |-> "pending", num |-> t.at - now]

\* handle_backoff_timing that also takes the poll flag down when it emits
handle_backoff_timing_clearing_poll(s, now, attempts) ==
    LET t == try_at(s.backoff, attempts, s.reference_time, s.overflow_checks)
    IN  IF t.panic
        THEN [s |-> [s EXCEPT !.alive = FALSE], val |-> "panic", num |-> 0]
        ELSE IF now >= t.at
             THEN [s |-> [s EXCEPT !.reference_time = now, !.poll = FALSE],
                   val |-> "emit", num |-> 0]
             ELSE [s |-> [wake_in(s, now, t.at - now) EXCEPT !.wait_until = t.at],
                   val |-> "pending", num |-> t.at - now]

\* handle_backoff_timing: Ready(Some(Ok(true))) once try_at has come, else
\* wake_in(remaining) and Pending; num is the remaining time handed to wake_in
handle_backoff_timing(s, now, attempts) ==
    LET t == try_at(s.backoff, attempts, s.reference_time, s.overflow_checks)
    IN  IF t.panic
        THEN [s |-> [s EXCEPT !.alive = FALSE], val |-> "panic", num |-> 0]
        ELSE IF now >= t.at
             THEN [s |-> [s EXCEPT !.reference_time = now], val |-> "emit", num |-> 0]
             ELSE [s |-> [wake_in(s, now, t.at - now) EXCEPT !.wait_until = t.at],
                   val |-> "pending", num |-> t.at - now]

\* poll_next where a notification taken from the upstream only shortens the wait:
\* the poll goes on to the regular interval
poll_upstream_dropping(s, now) ==
    IF s.upstream # <<>>
    THEN IF Head(s.upstream) = "notification"
         THEN handle_backoff_timing([s EXCEPT !.upstream = Tail(@)], now, 1)
         ELSE [s |-> [s EXCEPT !.upstream = Tail(@)], val |-> "err", num |-> 0]
    ELSE handle_backoff_timing(s, now, 1)

\* poll_next with the end of the upstream passed on as the end of this stream
poll_upstream_forwarding_end(s, now) ==
    IF s.upstream # <<>>
    THEN IF Head(s.upstream) = "notification"
         THEN [s |-> [s EXCEPT !.upstream = Tail(@), !.reference_time = now],
               val |-> "emit", num |-> 0]
         ELSE [s |-> [s EXCEPT !.upstream = Tail(@)], val |-> "err", num |-> 0]
    ELSE IF s.ended
         THEN [s |-> s, val |-> "none", num |-> 0]
         ELSE handle_backoff_timing(s, now, 1)

\* pg_stream.poll_next: the head of the notifications that have arrived
poll_upstream(s, now) ==
    IF s.upstream # <<>>
    THEN IF Head(s.upstream) = "notification"
         THEN [s |-> [s EXCEPT !.upstream = Tail(@), !.reference_time = now],
               val |-> "emit", num |-> 0]
         ELSE [s |-> [s EXCEPT !.upstream = Tail(@)], val |-> "err", num |-> 0]
    ELSE handle_backoff_timing(s, now, 1)

\* the branch a poll_next takes in the state s
Path(s) ==
    IF s.failed_attempts > 0 THEN "backoff"
    ELSE IF s.poll THEN "poll"
    ELSE IF s.pg_stream
         THEN IF s.upstream # <<>> THEN "upstream" ELSE "upstream_interval"
         ELSE "interval"

\* the poll_next that returned r has polled the upstream
UpstreamPolled(r) == r.op = "poll_next" /\ r.path \in {"upstream", "upstream_interval"}

poll_next ==
    LET now == clock
        s == [stream EXCEPT !.forced = FALSE, !.polled = TRUE,
                            !.woken = FALSE, !.wait_until = NoTime]
        r == IF s.failed_attempts > 0
             THEN handle_backoff_timing(s, now, s.failed_attempts)
             ELSE IF s.poll
                  THEN [s |-> [s EXCEPT !.poll = FALSE, !.reference_time = now],
                        val |-> "emit", num |-> 0]
                  ELSE IF s.pg_stream
                       THEN poll_upstream(s, now)
                       ELSE handle_backoff_timing(s, now, 1)
    IN  /\ stream.alive
        /\ BagCardinality(r.s.timers) <= MaxTimers
        /\ stream' = IF r.val = "emit" THEN [r.s EXCEPT !.last_emit = now] ELSE r.s
        /\ ret' = Result("poll_next", NoHost, NoMsg, r.val, r.num)
                     @@ [path |-> Path(stream)]
        /\ UNCHANGED <<clock, tables, txOpen, held, handed, given, queries>>

\* the sleep of a spawned task is over: it calls the waker and ends
TimerFires(due) ==
    /\ BagIn(due, stream.timers) /\ clock >= due
    /\ StreamStep([stream EXCEPT !.timers = @ (-) SetToBag({due}), !.woken = TRUE],
                  "timer", "wake", due)

\* the consumer drops the stream
Drop ==
    /\ stream.alive
    /\ StreamStep([stream EXCEPT !.alive = FALSE], "drop", "ok", 0)

\* Postgres delivers a notification to the attached stream, or the connection
\* fails, or the notification stream ends
Upstream(item) ==
    /\ stream.alive /\ stream.pg_stream /\ ~stream.ended
    /\ Len(stream.upstream) < MaxUpstream
    /\ StreamStep([stream EXCEPT !.upstream = Append(@, item)], "upstream", item, 0)

UpstreamEnds ==
    /\ stream.alive /\ stream.pg_stream /\ ~stream.ended
    /\ StreamStep([stream EXCEPT !.ended = TRUE], "upstream", "ended", 0)

HoldFors == 0..MaxHold

Delays == 0..MaxDelay

Attempts == 1..MaxAttempted

\* producers: messages with the ids M are published
Publish(M) == \E m \in M : publish_message(m)

\* workers of the hosts H poll on the executors T
Dispatch(T, H) ==
    \/ \E t \in T, h \in H, d \in HoldFors : get_next_unattempted(t, h, d)
    \/ \E t \in T, h \in H, d \in HoldFors : get_next_retryable(t, h, d)
    \/ \E t \in T, h \in H, d \in HoldFors : get_next_missing(t, h, d)

\* a worker of host h reports on message m, or renews its lease
Report(h, m) ==
    \/ report_success(h, m)
    \/ \E a \in Attempts, d \in Delays : report_retryable(h, m, a, clock + d)
    \/ report_dead(h, m)
    \/ \E d \in HoldFors : request_lease(h, m, d)

\* every statement on a pool connection, any operation by any host in any order
Next ==
    \/ Tick
    \/ Publish(SeqMsgs)
    \/ Dispatch({Pool}, Hosts)
    \/ \E m \in SeqMsgs, h \in Hosts : Report(h, m)

\* the operations as a producer and the worker loop call them: an id is published
\* once, and a host reports on (or renews) only a message a get_next_* call gave it,
\* once per hand-out
NextWorkers ==
    \/ Tick
    \/ Publish({m \in SeqMsgs : ~InUnattempted(m) /\ ~InAttempted(m)})
    \/ Dispatch({Pool}, Hosts)
    \/ \E m \in SeqMsgs : \E h \in given[m] : Report(h, m)

\* the producer and the worker loop, with the polls in explicit transactions
NextTx ==
    \/ Tick
    \/ Publish({m \in SeqMsgs : ~InUnattempted(m) /\ ~InAttempted(m)})
    \/ Dispatch(Execs, TxHosts)
    \/ \E m \in SeqMsgs : \E h \in given[m] : Report(h, m)
    \/ \E t \in Txs : begin(t)
    \/ \E t \in Txs : commit(t)
    \/ \E t \in Txs : rollback(t)

\* competing workers draining a queue of several messages in explicit transactions
NextQueue ==
    \/ Tick
    \/ Publish(Msgs)
    \/ \E t \in Execs, h \in TxHosts, d \in HoldFors : get_next_unattempted(t, h, d)
    \/ \E t \in Txs : begin(t)
    \/ \E t \in Txs : commit(t)
    \/ \E t \in Txs : rollback(t)

\* hosts requesting and renewing leases on several messages, queued, dispatched or
\* never published (as the tests of request_lease do)
NextLease ==
    \/ Tick
    \/ Publish(Msgs)
    \/ \E h \in Hosts, d \in HoldFors : get_next_unattempted(Pool, h, d)
    \/ \E m \in Msgs, h \in Hosts, d \in HoldFors : request_lease(h, m, d)

\* time passes, up to T
TickUntil(T) ==
    /\ UNCHANGED <<stream, queries>>
    /\ clock < T
    /\ clock' = clock + 1
    /\ ret' = Result("tick", NoHost, NoMsg, "ok", 0)
    /\ UNCHANGED <<tables, txOpen, held, handed, given>>

RenewHolds == 0..MaxRenewHold

\* a worker that renews the lease of the message it holds while other workers look
\* for missing messages
NextRenew ==
    \/ TickUntil(MaxRenewTime)
    \/ Publish({m \in SeqMsgs : ~InUnattempted(m) /\ ~InAttempted(m)})
    \/ \E h \in Hosts, d \in RenewHolds : get_next_unattempted(Pool, h, d)
    \/ \E h \in Hosts, d \in RenewHolds : get_next_missing(Pool, h, d)
    \/ \E m \in SeqMsgs : \E h \in given[m] : \E d \in RenewHolds : request_lease(h, m, d)

\* workers that keep polling the queue: producers publish (and publish again),
\* workers take the next message and report its success
PollUnattempted == \E h \in Hosts, d \in HoldFors : get_next_unattempted(Pool, h, d)

NextLive ==
    \/ Tick
    \/ Publish(Msgs)
    \/ PollUnattempted
    \/ \E m \in Msgs : \E h \in given[m] : report_success(h, m)

\* the retry sequence on one message: publish, get_next_unattempted,
\* report_retryable(attempted = 1), get_next_retryable, report_success, each step taken
\* when the previous one is done, with get_next_missing calls of any host in between
NextRetrySequence ==
    \/ TickUntil(MaxRenewTime)
    \/ \E m \in SeqMsgs :
          \/ ~InUnattempted(m) /\ ~InAttempted(m) /\ publish_message(m)
          \/ InUnattempted(m) /\ \E h \in Hosts, d \in HoldFors : get_next_unattempted(Pool, h, d)
          \/ /\ InAttempted(m) /\ errors[m] = 0 /\ m \notin attempts_succeeded
             /\ \E h \in given[m], d \in Delays : report_retryable(h, m, 1, clock + d)
          \/ /\ FailedRowsOf(m) # {} /\ ~get_raw_state(m, clock).has_any_lease
             /\ \E h \in Hosts, d \in HoldFors : get_next_retryable(Pool, h, d)
          \/ /\ FailedRowsOf(m) # {} /\ get_raw_state(m, clock).has_any_lease
             /\ \E h \in given[m] : report_success(h, m)
    \/ \E h \in Hosts, d \in HoldFors : get_next_missing(Pool, h, d)

\* ---- migrator.rs: PgIdentifier ----

\* the characters of a raw identifier: an ASCII letter, the underscore, the double
\* quote, an ASCII digit and a letter of two bytes in UTF-8
Quote == "\""

Chars == {"a", "_", Quote, "1", "e-acute"}

\* the bytes of a char in UTF-8
Utf8Len(c) == IF c = "e-acute" THEN 2 ELSE 1

RECURSIVE len(_)
\* str::len: the length in bytes
len(raw) == IF raw = <<>> THEN 0 ELSE Utf8Len(Head(raw)) + len(Tail(raw))

is_ascii_alphabetic(c) == c = "a"

\* str::replace without a replacement: the string as it is
replace_nothing(raw) == raw

RECURSIVE replace(_)
\* raw.replace('"', "\"\""): every double quote becomes two
replace(raw) ==
    IF raw = <<>> THEN <<>>
    ELSE (IF Head(raw) = Quote THEN <<Quote, Quote>> ELSE <<Head(raw)>>)
         \o replace(Tail(raw))

\* PgIdentifier::parse
parse(raw) ==
    IF raw = <<>>
    THEN [val |-> "Empty", ident |-> <<>>]
    ELSE IF len(raw) > DEFAULT_NAMEDATALEN - 1
         THEN [val |-> "TooLarge", ident |-> <<>>]
         ELSE IF ~is_ascii_alphabetic(Head(raw)) /\ Head(raw) # "_"
              THEN [val |-> "InvalidFirstChar", ident |-> <<>>]
              ELSE [val |-> "ok", ident |-> <<Quote>> \o replace(raw) \o <<Quote>>]

\* the raw strings handed to parse
Raws == UNION {[1..n -> Chars] : n \in 0..MaxRawLen}

\* a caller parses a schema name
Parse(raw) ==
    LET r == parse(raw)
    IN  /\ ret' = Result("parse", NoHost, NoMsg, r.val, 0) @@ [raw |-> raw, ident |-> r.ident]
        /\ UNCHANGED <<clock, tables, txOpen, held, handed, given, stream, queries>>

NextIdent == \E raw \in Raws : Parse(raw)

\* a caller computes try_at(attempted, attempted_at) on the stream's backoff
TryAt(attempted, attempted_at) ==
    LET r == try_at(stream.backoff, attempted, attempted_at, stream.overflow_checks)
    IN  /\ ret' = Result("try_at", NoHost, NoMsg, IF r.panic THEN "panic" ELSE "ok", r.at)
                     @@ [attempted |-> attempted, attempted_at |-> attempted_at]
        /\ UNCHANGED <<clock, tables, txOpen, held, handed, given, stream, queries>>

\* the attempt counts handed to try_at: none, and those the stream can count to
Attempteds == -1..MaxFailedAttempts

NextBackoff ==
    \/ TickUntil(MaxPollTime)
    \/ \E k \in Attempteds : TryAt(k, clock)

\* the instants a timer can be due at
Dues == 0..(MaxPollTime + MaxBaseDelay * U32Range)

NextPoll ==
    \/ TickUntil(MaxPollTime)
    \/ with_pg_stream
    \/ increment_failed_attempts
    \/ reset_failed_attempts
    \/ set_poll
    \/ poll_next
    \/ Upstream("notification")
    \/ Upstream("error")
    \/ UpstreamEnds
    \/ \E due \in Dues : TimerFires(due)
    \/ Drop

NextWake ==
    \/ TickUntil(MaxPollTime)
    \/ increment_failed_attempts
    \/ reset_failed_attempts
    \/ set_poll
    \/ poll_next
    \/ \E due \in Dues : TimerFires(due)
    \/ Drop

\* ---- queries/with_schema.rs: Queries ----

\* Queries::new: the schema string is stored as it is given
Queries_new(schema) ==
    /\ queries' = [queries EXCEPT !.made = TRUE, !.schema = schema]
    /\ ret' = Result("Queries::new", NoHost, NoMsg, "ok", 0)
    /\ UNCHANGED <<clock, tables, txOpen, held, handed, given, stream>>

\* an identifier character after the first of an unquoted identifier
IsIdentCont(c) == c \in {"a", "_", "1", "e-acute"}

\* the text is one unquoted identifier
IsUnquotedIdent(text) ==
    /\ text # <<>>
    /\ Head(text) \in {"a", "_", "e-acute"}
    /\ \A i \in DOMAIN text : IsIdentCont(text[i])

\* the text between the outer quotes holds double quotes in pairs only
RECURSIVE QuotesPaired(_)
QuotesPaired(text) ==
    IF text = <<>> THEN TRUE
    ELSE IF Head(text) # Quote THEN QuotesPaired(Tail(text))
         ELSE Len(text) >= 2 /\ text[2] = Quote /\ QuotesPaired(Tail(Tail(text)))

\* the text is one quoted identifier
IsQuotedIdent(text) ==
    /\ Len(text) >= 3
    /\ Head(text) = Quote /\ text[Len(text)] = Quote
    /\ QuotesPaired(SubSeq(text, 2, Len(text) - 1))

\* the statement "SET LOCAL search_path TO {schema}" is accepted when the text spliced
\* into it is one identifier
SetLocalAccepts(text) == IsUnquotedIdent(text) \/ IsQuotedIdent(text)

\* set_schema_for_transaction(tx, schema): the first statement of every method of
\* the facade
set_schema_for_transaction(t, schema) ==
    /\ txOpen[t]
    /\ UNCHANGED <<clock, handed, given, stream>>
    /\ IF SetLocalAccepts(schema)
       THEN /\ queries' = [queries EXCEPT !.search_path[t] = schema]
            /\ ret' = Result("set_schema_for_transaction", NoHost, NoMsg, "ok", t)
            /\ UNCHANGED <<tables, txOpen, held>>
       ELSE /\ ret' = Result("set_schema_for_transaction", NoHost, NoMsg, "err", t)
            /\ Failed(t)
            /\ UNCHANGED queries

\* the second statement of a method of the facade: reached only past the `?` of the
\* first, in the same transaction
Delegated(t) == queries.made /\ txOpen[t] /\ queries.search_path[t] = queries.schema

Queries_set_schema(t) == queries.made /\ set_schema_for_transaction(t, queries.schema)

Queries_get_next_unattempted(t, h, hold_for) ==
    Delegated(t) /\ get_next_unattempted(t, h, hold_for)

Queries_get_next_retryable(t, h, hold_for) ==
    Delegated(t) /\ get_next_retryable(t, h, hold_for)

Queries_get_next_missing(t, h, hold_for) ==
    Delegated(t) /\ get_next_missing(t, h, hold_for)

\* a service builds its Queries once, from a configured schema string
BuildQueries == ~queries.made /\ \E raw \in Raws : Queries_new(raw)

\* a service polls through the Queries it built
NextFacade ==
    \/ BuildQueries
    \/ Publish({m \in SeqMsgs : ~InUnattempted(m) /\ ~InAttempted(m)})
    \/ \E t \in Txs : begin(t)
    \/ \E t \in Txs : commit(t)
    \/ \E t \in Txs : rollback(t)
    \/ \E t \in Txs : Queries_set_schema(t)
    \/ \E t \in Txs, h \in TxHosts, d \in HoldFors : Queries_get_next_unattempted(t, h, d)
    \/ \E t \in Txs, h \in TxHosts, d \in HoldFors : Queries_get_next_retryable(t, h, d)
    \/ \E t \in Txs, h \in TxHosts, d \in HoldFors : Queries_get_next_missing(t, h, d)

GetNextOps == {"get_next_unattempted", "get_next_retryable", "get_next_missing"}

\* the last operation was a get_next_* call that returned message m
Returned(r, m) == r.op \in GetNextOps /\ r.val = "some" /\ r.msg = m

\* the worker that just got a message fails on it and reports at once, with the
\* counter it was given, incremented
ReportReturned ==
    \E m \in Msgs : /\ Returned(ret, m)
                    /\ \E d \in Delays :
                          report_retryable(handed[m].host, m, ret.num + 1, clock + d)

\* workers that fail on every message they get, or crash and never report
NextRetryCount ==
    \/ Tick
    \/ Publish({m \in SeqMsgs : ~InUnattempted(m) /\ ~InAttempted(m)})
    \/ Dispatch({Pool}, Hosts)
    \/ ReportReturned

Spec == Init /\ [][Next]_vars

SpecWorkers == Init /\ [][NextWorkers]_vars

SpecTx == Init /\ [][NextTx]_vars

SpecQueue == Init /\ [][NextQueue]_vars

SpecLease == Init /\ [][NextLease]_vars

SpecRenew == Init /\ [][NextRenew]_vars

SpecRetrySequence == Init /\ [][NextRetrySequence]_vars

\* the listener's stream alone, under any backoff and either build
SpecPoll == InitPoll /\ [][NextPoll]_vars

\* PgIdentifier::parse alone, on any raw string
SpecIdent == Init /\ [][NextIdent]_vars

\* try_at alone, on any backoff, at any attempt count, by either build
SpecBackoff == InitPoll /\ [][NextBackoff]_vars

\* the stream without an upstream, its timers and a clock that keeps running: tokio
\* runs every spawned task whose sleep is over
SpecWake ==
    /\ InitPoll /\ [][NextWake]_vars
    /\ WF_vars(TickUntil(MaxPollTime))
    /\ \A due \in Dues : WF_vars(TimerFires(due))

\* the attempt counter as the worker loop hands it back
SpecRetryCount == Init /\ [][NextRetryCount]_vars

\* the facade alone, built from any schema string
SpecFacade == Init /\ [][NextFacade]_vars

\* the workers never stop polling and time never stops passing
SpecLive == Init /\ [][NextLive]_vars /\ WF_vars(PollUnattempted) /\ WF_vars(Tick)

\* ---- what the claims read ----

LeaseRowsOf(m) == {l \in VisibleLeases(Pool) : l.message_id = m}

LeaseCount(m) == SumCounts(leases, LeaseRowsOf(m))

\* ---- the claims ----

\* C1: a message that has a lease row with expires_at > now is never returned by a
\* get_next_* call made with that now.
C1_ActiveLeaseNeverReturned ==
    [][\A m \in Msgs : Returned(ret', m) => ~HasActiveLease(Pool, m, clock)]_vars

\* C2: concurrent get_next_unattempted callers never get the same message twice (a
\* returned message was in no caller's hands and was never delivered before), and a
\* caller gets none only when every queued message is in the hands of a caller whose
\* transaction is still open, so that no message is left over once they commit. No
\* call fails because of a concurrent caller: a failing call met an id whose earlier
\* delivery is committed.
C2_EachMessageOnce ==
    [][/\ \A m \in Msgs :
            ret'.op = "get_next_unattempted" /\ ret'.val = "some" /\ ret'.msg = m
                => ~InAttempted(m) /\ \A t \in Txs : m \notin held[t]
       /\ \A m \in Msgs :
            ret'.op = "get_next_unattempted" /\ ret'.val = "err" /\ ret'.msg = m
                => \E a \in messages_attempted : a.id = m /\ a.by = Pool
       /\ ret'.op = "get_next_unattempted" /\ ret'.val = "none"
            => \A u \in messages_unattempted : \E t \in Txs : txOpen[t] /\ u.id \in held[t]
      ]_vars

\* two callers in open transactions each hold one of two queued messages
C2_Witness ==
    /\ ret.op = "get_next_unattempted" /\ ret.val = "some"
    /\ \E t1, t2 \in Txs : t1 # t2 /\ txOpen[t1] /\ txOpen[t2]
                           /\ held[t1] # {} /\ held[t2] # {} /\ held[t1] # held[t2]

\* C3: two get_next_* calls in open transactions never return the same message.
C3_NoMessageInTwoHands ==
    \A t1, t2 \in Txs : t1 # t2 => held[t1] \cap held[t2] = {}

\* C4: while host H holds message m (handed out with expiry E, renewed or not, and
\* not reported by H), no get_next_* call with now < E returns m to another host.
C4_HolderKeepsMessage ==
    [][\A m \in Msgs :
          Returned(ret', m) /\ handed[m].host # NoHost /\ handed'[m].host # handed[m].host
              => clock >= handed[m].exp]_vars

\* C5: a message id is never in both messages_unattempted and messages_attempted, and
\* a message in messages_attempted never reappears in messages_unattempted.
C5_ExactlyOneTable ==
    \A m \in Msgs : ~(InUnattempted(m) /\ InAttempted(m))

\* C6: the eight booleans of every message match one of the six lifecycle states at
\* every time now: get_state never reaches its panic branch.
C6_StateDefined ==
    \A m \in Msgs, now \in 0..(MaxTime + MaxHold) :
        InUnattempted(m) \/ InAttempted(m) => get_state(get_raw_state(m, now)) # "Undefined"

\* C7: attempts_succeeded and attempts_dead are mutually exclusive, and a message
\* with either has no lease row and no attempts_failed row.
C7_TerminalIsClean ==
    \A m \in Msgs :
        /\ ~(m \in attempts_succeeded /\ m \in attempts_dead)
        /\ m \in attempts_succeeded \cup attempts_dead
              => LeaseRowsOf(m) = {} /\ FailedRowsOf(m) = {}

\* C8: a message with an attempts_succeeded or attempts_dead row is never returned by
\* a get_next_* call.
C8_TerminalNeverReturned ==
    [][\A m \in Msgs : Returned(ret', m) => m \notin attempts_succeeded \cup attempts_dead]_vars

\* C9 as claimed: a message with an attempts_failed row has no lease row and neither
\* an attempts_succeeded nor an attempts_dead row.
C9_FailedHasNoLease ==
    \A m \in Msgs :
        FailedRowsOf(m) # {}
            => LeaseRowsOf(m) = {} /\ m \notin attempts_succeeded /\ m \notin attempts_dead

\* C9 as amended: right after a successful report_retryable the message has an
\* attempts_failed row and no lease row; get_next_retryable keeps the attempts_failed
\* rows of the message it hands out and adds a lease row, so that right after it the
\* message has both an attempts_failed row and a lease row.
C9_FailedThenLeased ==
    [][\A m \in Msgs :
          /\ ret'.op = "report_retryable" /\ ret'.val = "ok" /\ ret'.msg = m
                => LeaseRowsOf(m)' = {} /\ FailedRowsOf(m)' # {}
          /\ ret'.op = "get_next_retryable" /\ ret'.val = "some" /\ ret'.msg = m
                => /\ LeaseRowsOf(m)' # {}
                   /\ FailedRowsOf(m) # {}
                   /\ attempts_failed' = attempts_failed]_vars

\* get_next_retryable has handed out a failed message: it has a lease and a failed row
C9_Witness ==
    \E m \in Msgs :
        /\ ret.op = "get_next_retryable" /\ ret.val = "some" /\ ret.msg = m
        /\ LeaseRowsOf(m) # {} /\ FailedRowsOf(m) # {}

\* C10: the leases table holds at most one row per message id.
C10_OneLeasePerMessage ==
    \A m \in Msgs : LeaseCount(m) <= 1

\* C11: every lease row refers to a message that is in messages_attempted.
C11_LeaseImpliesAttempted ==
    \A l \in VisibleLeases(Pool) : InAttempted(l.message_id)

\* C12: request_lease(m, now, h, hold_for) inserts a lease row and returns
\* now + hold_for if and only if no lease row of message m is held by another host
\* and active at now; otherwise it inserts nothing and returns none.
C12_GrantedIffNoAlienLeaseOnMessage ==
    [][\A m \in Msgs, h \in Hosts, d \in HoldFors :
          request_lease(h, m, d) =>
              LET free == ~\E l \in LeaseRowsOf(m) : l.acquired_by # h /\ l.expires_at > clock
              IN  IF free
                  THEN /\ ret'.val = "some" /\ ret'.num = clock + d
                       /\ BagCardinality(leases') = BagCardinality(leases) + 1
                  ELSE ret'.val = "none" /\ leases' = leases]_vars

\* host h holds message m and has renewed its lease in time: a lease row of h on m
\* with expiry E was acquired while an earlier lease row of h on m, expiring before
\* E, was active (reports delete the rows, so h has not reported since)
Renewed(m, h, E) ==
    \E r1, r2 \in LeaseRowsOf(m) :
        /\ r1.acquired_by = h /\ r2.acquired_by = h
        /\ r1.acquired_at <= r2.acquired_at /\ r2.acquired_at < r1.expires_at
        /\ r1.expires_at < r2.expires_at /\ r2.expires_at = E

\* C13: after the holder of m renewed its lease in time to the expiry E, m is not
\* Missing while the renewed lease is active and get_next_missing returns m to no
\* host at any now <= E.
C13_RenewalProtectsHolder ==
    [][\A m \in Msgs, h \in Hosts, E \in 0..(MaxRenewTime + MaxRenewHold) :
          Renewed(m, h, E) =>
              /\ \A now \in 0..(MaxRenewTime + MaxRenewHold) :
                    now < E => get_state(get_raw_state(m, now)) # "Missing"
              /\ clock <= E => ~(ret'.op = "get_next_missing" /\ Returned(ret', m))]_vars

\* C14: at-least-once delivery: while workers keep polling, every message waiting in
\* the queue is eventually returned by a get_next_* call; no message stays
\* undispatchable for ever, nor do the messages queued behind it.
C14_EventuallyDelivered ==
    \A m \in Msgs : InUnattempted(m) ~> Returned(ret, m)

\* C15: get_next_missing(now, H, hold_for) returns a message only if it has a lease
\* with expires_at < now and neither a success nor a dead row; it rewrites the lease
\* of the message to (now, H, now + hold_for) without adding or removing lease rows,
\* returns attempted = 0, and for hold_for > 0 the message is InProgress at now
\* afterwards.
C15_MissingRescued ==
    [][\A m \in Msgs, h \in Hosts, d \in HoldFors :
          get_next_missing(Pool, h, d) /\ ret'.val = "some" /\ ret'.msg = m =>
              /\ \E l \in LeaseRowsOf(m) : l.expires_at < clock
              /\ m \notin attempts_succeeded /\ m \notin attempts_dead
              /\ LeaseCount(m)' = LeaseCount(m)
              /\ BagCardinality(leases') = BagCardinality(leases)
              /\ \A l \in LeaseRowsOf(m)' :
                    l.acquired_at = clock /\ l.acquired_by = h /\ l.expires_at = clock + d
              /\ ret'.num = 0
              /\ d > 0 => get_state(get_raw_state(m, clock))' = "InProgress"]_vars

\* the attempts_failed rows of m with the greatest failed_at
LatestFailedRowsOf(m) ==
    {i \in FailedRowsOf(m) : \A j \in FailedRowsOf(m) :
        attempts_failed[j].failed_at <= attempts_failed[i].failed_at}

ReportOps == {"report_success", "report_retryable", "report_dead"}

\* C17: report_success, report_retryable and report_dead for a message id that is not
\* in messages_attempted return an error and leave every table unchanged.
C17_ReportOfUnattemptedFails ==
    [][\A m \in Msgs :
          ret'.op \in ReportOps /\ ret'.msg = m /\ ~InAttempted(m)
              => ret'.val = "err" /\ UNCHANGED tables]_vars

\* a report on a message that is not attempted failed and left its lease row in place
C17_Witness ==
    /\ ret.op \in ReportOps /\ ret.val = "err"
    /\ ~InAttempted(ret.msg)
    /\ LeaseRowsOf(ret.msg) # {}

\* C18: in the sequence publish, get_next_unattempted, report_retryable(1, T),
\* get_next_retryable at now >= T, report_success, with get_next_missing calls of any
\* host in between, get_next_retryable returns the message with attempted = 1 (one of
\* them when several messages wait for their retry),
\* report_success succeeds, and from then on the message is Succeeded with no lease row
\* and no attempts_failed row.
C18_RetryThenSuccess ==
    [][\A m \in SeqMsgs :
          /\ ret'.op = "get_next_retryable" /\ LeaseRowsOf(m) = {}
             /\ (\E i \in FailedRowsOf(m) : attempts_failed[i].retry_earliest_at <= clock)
                => /\ \E n \in SeqMsgs :
                         /\ Returned(ret', n) /\ ret'.num = 1
                         /\ \E i \in FailedRowsOf(n) :
                               attempts_failed[i].retry_earliest_at <= clock
                   /\ (\A n \in SeqMsgs \ {m} : FailedRowsOf(n) = {}) => Returned(ret', m)
          /\ ret'.op = "report_success" /\ ret'.msg = m
                => ret'.val = "ok" /\ m \in attempts_succeeded'
          /\ m \in attempts_succeeded'
                => /\ LeaseRowsOf(m)' = {}
                   /\ FailedRowsOf(m)' = {}
                   /\ \A now \in 0..(MaxRenewTime + MaxHold) :
                         get_state(get_raw_state(m, now))' = "Succeeded"]_vars

\* the sequence is complete and a get_next_missing call in between had rescued the
\* message for another host
C18_Witness ==
    \E m \in SeqMsgs :
        /\ ret.op = "report_success" /\ ret.val = "ok" /\ ret.msg = m
        /\ given[m] # {}

\* C19: while failed_attempts = k > 0, poll_next emits only when
\* now >= reference_time + base_delay * base^(k-1); the poll flag and a waiting
\* notification cause no earlier emit, and the notification upstream is not polled.
C19_FailedBackoffGates ==
    [][(stream.failed_attempts > 0 /\ poll_next) =>
          /\ ~UpstreamPolled(ret')
          /\ ret'.val = "emit" =>
                clock >= stream.reference_time
                         + stream.backoff.base_delay
                           * Pow(stream.backoff.base, stream.failed_attempts - 1)]_vars

\* C20: the first poll_next after set_poll() emits, whatever failed_attempts is and
\* whatever time has passed since reference_time.
C20_SetPollForcesEmit ==
    [][(stream.forced /\ poll_next) => ret'.val = "emit"]_vars

\* C21: the first poll_next on a newly constructed stream emits, whichever of
\* increment_failed_attempts, reset_failed_attempts, with_pg_stream were called
\* between the construction and that poll.
C21_FirstPollEmits ==
    [][(~stream.polled /\ ~stream.forced /\ poll_next) => ret'.val = "emit"]_vars

\* C22: poll_next never yields the end of the stream, also after the upstream has
\* yielded an error or has ended; an error item of the upstream is forwarded as one
\* Err item by the poll that takes it, and by no other poll; after that and after the
\* end of the upstream the stream lives on and emits at the regular interval.
C22_NeverEnds ==
    [][poll_next =>
          /\ ret'.val # "none"
          /\ ret'.val = "err" <=>
                /\ stream.failed_attempts = 0 /\ ~stream.poll /\ stream.pg_stream
                /\ stream.upstream # <<>> /\ Head(stream.upstream) = "error"
          /\ ret'.val = "err" =>
                /\ stream'.upstream = Tail(stream.upstream)
                /\ stream'.alive
          /\ (/\ stream.failed_attempts = 0 /\ ~stream.poll /\ stream.pg_stream
              /\ stream.upstream = <<>>
              /\ clock >= stream.reference_time + stream.backoff.base_delay)
                => ret'.val = "emit" /\ stream'.alive]_vars

\* the upstream has ended, a later poll has polled it again and has emitted
C22_Witness ==
    /\ ret.op = "poll_next" /\ ret.val = "emit"
    /\ stream.pg_stream /\ stream.ended /\ UpstreamPolled(ret)

\* C23: whenever poll_next returns Pending it has armed a timer for exactly the
\* remaining delay until try_at, a positive one; with time advancing that timer fires
\* and wakes the consumer, and the next poll after it emits when no mutator was called
\* in between; poll_next itself never wakes the consumer, only a timer does.
C23_WakeupDiscipline ==
    /\ [][poll_next =>
             /\ ~stream'.woken
             /\ ret'.val = "pending" =>
                   /\ ret'.num > 0
                   /\ stream'.wait_until = clock + ret'.num
                   /\ stream'.timers = stream.timers (+) SetToBag({clock + ret'.num})
             /\ (stream.wait_until # NoTime /\ clock >= stream.wait_until)
                   => ret'.val = "emit"]_vars
    /\ [][(stream'.woken /\ ~stream.woken) => ret'.op = "timer"]_vars
    /\ \A due \in 0..MaxPollTime :
          (ret.op = "poll_next" /\ ret.val = "pending" /\ clock + ret.num = due)
              ~> (ret.op = "timer" /\ ret.num = due /\ stream.woken)

\* the timer that the last Pending armed under failed_attempts = 2 has fired and has
\* woken the consumer
C23_Witness ==
    /\ ret.op = "timer" /\ stream.woken
    /\ stream.wait_until = ret.num
    /\ stream.failed_attempts = 2

\* C24: after the stream is dropped no timer it armed remains outstanding: none of
\* them fires later and calls the consumer's waker.
C24_DropCancelsTimers ==
    [][~stream.alive => ~(ret'.op = "timer" /\ stream'.woken)]_vars

\* C25: at any instant at most one timer armed by the stream is outstanding.
C25_OneTimerAtATime ==
    BagCardinality(stream.timers) <= 1

\* C26: with failed_attempts = 0, the poll flag clear and nothing to take from the
\* upstream, poll_next emits exactly when now >= reference_time + base_delay and
\* otherwise returns Pending; reference_time is then the time of the last emit, and
\* every emit sets reference_time to the time of that emit.
C26_RegularInterval ==
    [][poll_next =>
          /\ (/\ stream.failed_attempts = 0 /\ ~stream.poll
              /\ (stream.pg_stream => stream.upstream = <<>>))
                => /\ stream.reference_time = stream.last_emit
                   /\ IF clock >= stream.reference_time + stream.backoff.base_delay
                      THEN ret'.val = "emit"
                      ELSE ret'.val = "pending"
          /\ ret'.val = "emit" =>
                stream'.reference_time = clock /\ stream'.last_emit = clock]_vars

\* the upstream had nothing, the interval since the last emit was over and the poll
\* emitted on the regular-interval path
C26_Witness ==
    /\ ret.op = "poll_next" /\ ret.val = "emit"
    /\ ret.path = "upstream_interval"
    /\ stream.reference_time = clock /\ clock > 1

\* C27: with failed_attempts = 0 and the poll flag clear, the poll that takes a
\* notification from the upstream emits at once, whatever time has passed since
\* reference_time, and takes that one item only; a notification leaves the upstream
\* in no other way (but with the upstream itself, when with_pg_stream replaces it):
\* not by a poll paced by failed_attempts > 0, not by reset_failed_attempts.
C27_NotificationEmits ==
    [][LET taken == /\ stream.upstream # <<>>
                    /\ Head(stream.upstream) = "notification"
                    /\ Len(stream'.upstream) < Len(stream.upstream)
       IN  /\ (/\ poll_next /\ stream.failed_attempts = 0 /\ ~stream.poll
               /\ stream.pg_stream /\ stream.upstream # <<>>
               /\ Head(stream.upstream) = "notification")
                 => /\ ret'.val = "emit" /\ stream'.reference_time = clock
                    /\ stream'.upstream = Tail(stream.upstream)
           /\ taken =>
                 \/ ret'.op = "with_pg_stream"
                 \/ /\ ret'.op = "poll_next" /\ ret'.val = "emit"
                    /\ ret'.path = "upstream"
                    /\ stream'.upstream = Tail(stream.upstream)]_vars

\* a notification was taken and the poll emitted at the instant of the emit before it
C27_Witness ==
    /\ ret.op = "poll_next" /\ ret.val = "emit" /\ ret.path = "upstream"
    /\ clock = 0

\* C28: publish_message of a new id inserts exactly one row into messages_unattempted,
\* returns it with attempted = 0 and leaves the message Pending; publish_message of
\* an id that exists, unattempted or dispatched, returns an error and changes nothing.
C28_PublishOnceOrError ==
    [][\A m \in Msgs :
          (ret'.op = "publish_message" /\ ret'.msg = m) =>
              IF InUnattempted(m) \/ InAttempted(m)
              THEN ret'.val = "err" /\ UNCHANGED tables
              ELSE /\ ret'.val = "some" /\ ret'.num = 0
                   /\ \E u \in messages_unattempted' :
                         /\ u.id = m
                         /\ messages_unattempted' = messages_unattempted \cup {u}
                   /\ get_state(get_raw_state(m, clock))' = "Pending"]_vars

\* C29: try_at(k, t) is t for every k <= 0 and t + base_delay * base^(k-1) for every
\* k > 0, at every attempt count the stream can reach: the power never overflows,
\* wraps or panics.
C29_TryAtArithmetic ==
    ret.op = "try_at" =>
        /\ ret.val = "ok"
        /\ ret.num = IF ret.attempted <= 0
                     THEN ret.attempted_at
                     ELSE ret.attempted_at
                          + stream.backoff.base_delay
                            * Pow(stream.backoff.base, ret.attempted - 1)

RECURSIVE Paired(_)
\* every double quote of s has its partner next to it
Paired(s) ==
    IF s = <<>> THEN TRUE
    ELSE IF Head(s) = Quote
         THEN Len(s) >= 2 /\ s[2] = Quote /\ Paired(Tail(Tail(s)))
         ELSE Paired(Tail(s))

RECURSIVE Unescaped(_)
\* s with every pair of double quotes read as one
Unescaped(s) ==
    IF s = <<>> THEN <<>>
    ELSE IF Head(s) = Quote /\ Len(s) >= 2
         THEN <<Quote>> \o Unescaped(Tail(Tail(s)))
         ELSE <<Head(s)>> \o Unescaped(Tail(s))

\* C30: parse(raw) is Empty for the empty string, else TooLarge when raw has more
\* than DEFAULT_NAMEDATALEN - 1 bytes, else InvalidFirstChar when its first char is
\* neither an ASCII letter nor the underscore; in every other case the result starts
\* and ends with a double quote and between them is raw with every double quote
\* doubled: no double quote in it is unpaired and reading the pairs back gives raw.
C30_ParseIdentifier ==
    ret.op = "parse" =>
        LET raw == ret.raw
            bytes == len(raw)
            inner == SubSeq(ret.ident, 2, Len(ret.ident) - 1)
        IN  IF raw = <<>> THEN ret.val = "Empty"
            ELSE IF bytes >= DEFAULT_NAMEDATALEN THEN ret.val = "TooLarge"
            ELSE IF Head(raw) \notin {"a", "_"} THEN ret.val = "InvalidFirstChar"
            ELSE /\ ret.val = "ok"
                 /\ Len(ret.ident) >= 2
                 /\ Head(ret.ident) = Quote /\ ret.ident[Len(ret.ident)] = Quote
                 /\ Paired(inner)
                 /\ Unescaped(inner) = raw

\* a raw string with a double quote inside was accepted
C30_Witness ==
    /\ ret.op = "parse" /\ ret.val = "ok"
    /\ \E i \in DOMAIN ret.raw : ret.raw[i] = Quote

\* C31: every method of the Queries facade runs its query in a transaction whose
\* search_path was set to the facade's schema first, and the schema text spliced
\* into that SET LOCAL is always the quoted form PgIdentifier::parse produces of some
\* valid raw name
C31_FacadeSchemaIsValidated ==
    /\ [][ret'.op \in GetNextOps =>
              \E t \in Txs : txOpen[t] /\ queries.search_path[t] = queries.schema]_vars
    /\ [](\A t \in Txs : queries.search_path[t] # DefaultSearchPath =>
              \E raw \in Raws : parse(raw).val = "ok"
                                /\ parse(raw).ident = queries.search_path[t])

\* the rows of messages_unattempted no open transaction has locked
UnlockedUnattempted == {u \in messages_unattempted : \A t \in Txs : u.lock # t}

\* C32: get_next_unattempted returns the oldest message by (published_at, id) among
\* the rows of messages_unattempted no other open transaction has locked, and none
\* exactly when there is no such row
C32_OldestUnlockedFirst ==
    [][ret'.op = "get_next_unattempted" =>
          IF UnlockedUnattempted = {}
          THEN ret'.val = "none"
          ELSE /\ ret'.val = "some"
               /\ \E u \in UnlockedUnattempted :
                     /\ ret'.msg = u.id
                     /\ \A v \in UnlockedUnattempted \ {u} :
                           \/ u.published_at < v.published_at
                           \/ u.published_at = v.published_at /\ u.id < v.id]_vars

\* C33: a get_next_unattempted that returns m moves its row, unchanged, from
\* messages_unattempted to messages_attempted, adds exactly one lease row
\* (m, now, H, now + hold_for), returns attempted = 0, and leaves m InProgress at now
C33_FirstHandOut ==
    [][\A m \in Msgs : ret'.op = "get_next_unattempted" /\ Returned(ret', m) =>
          /\ ret'.num = 0
          /\ \E u \in messages_unattempted :
                /\ u.id = m
                /\ messages_unattempted' = messages_unattempted \ {u}
                /\ messages_attempted' = messages_attempted \cup
                      {[id |-> m, published_at |-> u.published_at, by |-> Pool, lock |-> Pool]}
          /\ \E h \in Hosts, hold_for \in HoldFors :
                leases' = leases (+) SetToBag({LeaseRow(m, clock, h, clock + hold_for, Pool)})
          /\ get_state(get_raw_state(m, clock))' = "InProgress"]_vars

\* C34: a message with a lease row and no success or dead row is Missing at now
\* exactly when its lease has expires_at < now, which is exactly when
\* get_next_missing called with that now can select it; at expires_at = now it is
\* neither Missing nor selectable
C34_MissingIffExpired ==
    \A m \in Msgs :
        LeaseRowsOf(m) # {} /\ m \notin attempts_succeeded /\ m \notin attempts_dead =>
            LET missing == get_state(get_raw_state(m, clock)) = "Missing"
                selectable == \E c \in MissingCandidates(Pool, clock) : c[2].id = m
                expired == \E l \in LeaseRowsOf(m) : l.expires_at < clock
            IN  /\ missing <=> expired
                /\ missing <=> selectable
                /\ (\A l \in LeaseRowsOf(m) : l.expires_at = clock) =>
                      ~missing /\ ~selectable

\* C35: while a transaction that got messages from get_next_unattempted is open, no
\* get_next_unattempted call returns one of them, and a call returns none when all
\* that is queued is in such hands; when the transaction is rolled back, each of
\* its messages is Pending again, with no lease row and no messages_attempted row
C35_OpenTransactionHoldsAndAborts ==
    [][/\ \A m \in Msgs : ret'.op = "get_next_unattempted" /\ Returned(ret', m) =>
              \A t \in Txs : txOpen[t] => m \notin held[t]
       /\ (/\ ret'.op = "get_next_unattempted"
           /\ \A u \in messages_unattempted : \E t \in Txs : txOpen[t] /\ u.id \in held[t])
          => ret'.val = "none"
       /\ \A t \in Txs : ret'.op = "rollback" /\ ret'.num = t =>
              \A m \in held[t] :
                  /\ get_state(get_raw_state(m, clock))' = "Pending"
                  /\ \A l \in DOMAIN leases' : l.message_id # m
                  /\ \A a \in messages_attempted' : a.id # m]_vars

\* C36: when get_next_retryable returns a message, the attempted it returns is the
\* attempted of the message's attempts_failed row with the greatest failed_at,
\* however many rows the message has
C36_ReturnsLatestAttempted ==
    [][\A m \in Msgs : ret'.op = "get_next_retryable" /\ Returned(ret', m) =>
          \A i \in LatestFailedRowsOf(m) : ret'.num = attempts_failed[i].attempted]_vars

\* C37: the errors table is append-only: a successful report_retryable or report_dead
\* adds exactly one errors row, of its message; no other step changes the table; so
\* every message with an attempts_failed or attempts_dead row has an errors row
C37_ErrorsAppendOnly ==
    /\ [][IF ret'.op \in {"report_retryable", "report_dead"} /\ ret'.val = "ok"
          THEN errors' = [errors EXCEPT ![ret'.msg] = @ + 1]
          ELSE errors' = errors]_vars
    /\ [](\A m \in Msgs : FailedRowsOf(m) # {} \/ m \in attempts_dead => errors[m] >= 1)

\* a message that failed once was reported dead: two errors rows
C37_Witness ==
    /\ ret.op = "report_dead" /\ ret.val = "ok"
    /\ errors[ret.msg] = 2

\* C38: a get_next_unattempted, get_next_retryable or get_next_missing call that
\* returns no message, and a request_lease call that returns none, leave every
\* table as it was
C38_NoneChangesNothing ==
    [][ret'.op \in GetNextOps \cup {"request_lease"} /\ ret'.val = "none" =>
          UNCHANGED tables]_vars

\* a request_lease was refused, and a poll found nothing, while rows existed
C38_Witness ==
    /\ ret.op = "request_lease" /\ ret.val = "none"
    /\ leases # EmptyBag /\ messages_attempted # {}

C40_AttemptedStrictlyIncreasing ==
    \A i, j \in DOMAIN attempts_failed :
        i < j /\ attempts_failed[i].message_id = attempts_failed[j].message_id =>
            attempts_failed[i].attempted < attempts_failed[j].attempted

====
